---- MODULE Spec2Model ----
(***************************************************************************)
(* Course catalog application (CS203_Lab_01/app.py): a JSON file holding   *)
(* an array of course records, read by load_courses, rewritten in full by  *)
(* save_courses, and the four Flask handlers index, course_catalog,        *)
(* course_details and add_course.                                          *)
(*                                                                         *)
(* Strings are sequences of characters, and so is the text of the file:    *)
(* json.dump writes the escaped spelling of every value and json.load      *)
(* scans it back, so dumping and loading are two different computations.   *)
(* Tracing spans and logger output do not feed back into control flow;     *)
(* the log level of the last line a handler emits is kept in its response. *)
(***************************************************************************)
EXTENDS Integers, Sequences, FiniteSets, TLC

\* Bound: number of create requests that may pass validation in one run.
MaxCourses == 2

\* Request-serving threads (app.run serves each request on its own thread).
Workers == {"w1", "w2"}

-----------------------------------------------------------------------------
\* Strings

Quote == "\""
Backslash == "\\"
Tab == "\t"
Newline == "\n"

\* Characters str.strip() removes (those this model's strings can hold).
WhiteSpace == {" ", Tab, Newline}

\* A forgotten .strip(): the string is tested as it came.
MutStripNothing(s) == s

RECURSIVE LStrip(_)
LStrip(s) ==
    IF s = <<>> THEN s
    ELSE IF Head(s) \in WhiteSpace THEN LStrip(Tail(s)) ELSE s

RECURSIVE RStrip(_)
RStrip(s) ==
    IF s = <<>> THEN s
    ELSE IF s[Len(s)] \in WhiteSpace THEN RStrip(SubSeq(s, 1, Len(s) - 1)) ELSE s

\* str.strip()
Strip(s) == RStrip(LStrip(s))

-----------------------------------------------------------------------------
\* The course record

\* Keys of course_data in insertion order (lines 116-124).
Keys == <<"code", "coursename", "instructor", "semester", "schedule",
          "classroom", "prerequisites", "grading", "description">>

KeySet == {Keys[i] : i \in DOMAIN Keys}

\* Fields read with request.form[key]: a missing key raises BadRequestKeyError.
IndexedKeys == {"code", "coursename", "instructor", "semester", "schedule", "classroom"}

\* Fields read with request.form.get(key, ''): a missing key gives ''.
DefaultedKeys == {"prerequisites", "grading", "description"}

\* required_fields of add_course, in list order.
RequiredFields == <<"coursename", "instructor">>

-----------------------------------------------------------------------------
\* JSON text: json.dump(courses, file, indent=4) and json.load(file).
\* A text is a sequence of characters.  The name of a member, with its two
\* quotes, is one element (the nine names are fixed identifiers that need no
\* escaping); a newline with the indentation after it is the element Newline.

\* Whitespace json.load skips between tokens.
JsonSpace == {" ", Tab, Newline}

\* A writer that puts the characters between the quotes as they are.
MutEscapeNothing(c) == <<c>>

\* py_encode_basestring_ascii: quote, backslash and control characters are
\* written as two-character escapes.
EscapeChar(c) ==
    IF c = Quote THEN <<Backslash, Quote>>
    ELSE IF c = Backslash THEN <<Backslash, Backslash>>
    ELSE IF c = Tab THEN <<Backslash, "t">>
    ELSE IF c = Newline THEN <<Backslash, "n">>
    ELSE <<c>>

RECURSIVE Encode(_)
Encode(s) == IF s = <<>> THEN <<>> ELSE EscapeChar(Head(s)) \o Encode(Tail(s))

DumpString(s) == <<Quote>> \o Encode(s) \o <<Quote>>

\* "key": "value"
DumpMember(k, v) == <<k, ":", " ">> \o DumpString(v)

RECURSIVE DumpMembers(_, _)
DumpMembers(course, i) ==
    IF i > Len(Keys) THEN <<>>
    ELSE DumpMember(Keys[i], course[Keys[i]])
         \o (IF i < Len(Keys) THEN <<",", Newline>> ELSE <<>>)
         \o DumpMembers(course, i + 1)

DumpCourse(course) == <<"{", Newline>> \o DumpMembers(course, 1) \o <<Newline, "}">>

RECURSIVE DumpCourses(_, _)
DumpCourses(courses, i) ==
    IF i > Len(courses) THEN <<>>
    ELSE DumpCourse(courses[i])
         \o (IF i < Len(courses) THEN <<",", Newline>> ELSE <<>>)
         \o DumpCourses(courses, i + 1)

\* json.dump(courses, file, indent=4)
Dump(courses) ==
    IF courses = <<>> THEN <<"[", "]">>
    ELSE <<"[", Newline>> \o DumpCourses(courses, 1) \o <<Newline, "]">>

Fail == [ok |-> FALSE, value |-> <<>>, rest |-> <<>>]

RECURSIVE SkipSpace(_)
SkipSpace(text) ==
    IF text # <<>> /\ Head(text) \in JsonSpace THEN SkipSpace(Tail(text)) ELSE text

\* the next token of the text is c
IsTok(text, c) == text # <<>> /\ Head(text) = c

\* The body of a string literal after its opening quote, up to the closing
\* one: an unescaped control character, an unknown escape or the end of the
\* text inside the literal is an error.
RECURSIVE ScanString(_, _)
ScanString(text, acc) ==
    IF text = <<>> THEN Fail
    ELSE LET c == Head(text) IN
        IF c = Quote THEN [ok |-> TRUE, value |-> acc, rest |-> Tail(text)]
        ELSE IF c = Backslash THEN
            IF Len(text) < 2 THEN Fail
            ELSE LET e == text[2] IN
                IF e \in {Quote, Backslash} THEN
                    ScanString(Tail(Tail(text)), Append(acc, e))
                ELSE IF e = "t" THEN ScanString(Tail(Tail(text)), Append(acc, Tab))
                ELSE IF e = "n" THEN ScanString(Tail(Tail(text)), Append(acc, Newline))
                ELSE Fail
        ELSE IF c \in {Tab, Newline} THEN Fail
        ELSE ScanString(Tail(text), Append(acc, c))

\* The object a list of (key, value) pairs denotes: a repeated key keeps its
\* last value.
Obj(pairs) ==
    [k \in {pairs[i][1] : i \in DOMAIN pairs} |->
        LET last == CHOOSE i \in DOMAIN pairs :
                        /\ pairs[i][1] = k
                        /\ \A j \in DOMAIN pairs : pairs[j][1] = k => j <= i
        IN pairs[last][2]]

\* members of an object, after its "{" or after a ",": key ":" string
RECURSIVE ParseMembers(_, _)
ParseMembers(text, pairs) ==
    LET t1 == SkipSpace(text) IN
    IF t1 = <<>> \/ Head(t1) \notin KeySet THEN Fail
    ELSE LET t2 == SkipSpace(Tail(t1)) IN
    IF ~IsTok(t2, ":") THEN Fail
    ELSE LET t3 == SkipSpace(Tail(t2)) IN
    IF ~IsTok(t3, Quote) THEN Fail
    ELSE LET v == ScanString(Tail(t3), <<>>) IN
    IF ~v.ok THEN Fail
    ELSE LET more == Append(pairs, <<Head(t1), v.value>>)
             t4 == SkipSpace(v.rest)
         IN IF IsTok(t4, ",") THEN ParseMembers(Tail(t4), more)
            ELSE IF IsTok(t4, "}") THEN
                [ok |-> TRUE, value |-> Obj(more), rest |-> Tail(t4)]
            ELSE Fail

ParseObject(text) ==
    LET t1 == SkipSpace(text) IN
    IF ~IsTok(t1, "{") THEN Fail
    ELSE IF IsTok(SkipSpace(Tail(t1)), "}") THEN
        [ok |-> TRUE, value |-> Obj(<<>>), rest |-> Tail(SkipSpace(Tail(t1)))]
    ELSE ParseMembers(Tail(t1), <<>>)

\* elements of an array, after its "[" or after a ","
RECURSIVE ParseElements(_, _)
ParseElements(text, elems) ==
    LET o == ParseObject(text) IN
    IF ~o.ok THEN Fail
    ELSE LET more == Append(elems, o.value)
             t1 == SkipSpace(o.rest)
         IN IF IsTok(t1, ",") THEN ParseElements(Tail(t1), more)
            ELSE IF IsTok(t1, "]") THEN
                [ok |-> TRUE, value |-> more, rest |-> Tail(t1)]
            ELSE Fail

\* json.loads of the whole text: one array of objects and nothing but
\* whitespace after it.  ok = FALSE is json.JSONDecodeError.
Parse(text) ==
    LET t1 == SkipSpace(text)
        r == IF ~IsTok(t1, "[") THEN Fail
             ELSE IF IsTok(SkipSpace(Tail(t1)), "]") THEN
                 [ok |-> TRUE, value |-> <<>>, rest |-> Tail(SkipSpace(Tail(t1)))]
             ELSE ParseElements(Tail(t1), <<>>)
        good == r.ok /\ SkipSpace(r.rest) = <<>>
    IN [ok |-> good, value |-> IF good THEN r.value ELSE <<>>]

-----------------------------------------------------------------------------
\* Request inputs

\* course_data of lines 115-125, for a form that has every indexed key.
CourseData(form) ==
    [k \in KeySet |-> IF k \in DOMAIN form THEN form[k] ELSE <<>>]

\* Forms that carry all nine fields.
FullForms ==
    {[code |-> c, coursename |-> n, instructor |-> i, semester |-> <<"s">>,
      schedule |-> <<>>, classroom |-> <<"r">>, prerequisites |-> p,
      grading |-> <<"g">>, description |-> <<"d", Newline>>] :
        c \in {<<>>, <<"a">>},
        n \in {<<>>, <<" ">>, <<"x">>, <<" ", Quote>>},
        i \in {<<>>, <<Tab, " ">>, <<"y", Backslash>>},
        p \in {<<"p">>}}

ValidForm ==
    [code |-> <<"a">>, coursename |-> <<"x">>, instructor |-> <<"y", Backslash>>,
     semester |-> <<"s">>, schedule |-> <<>>, classroom |-> <<"r">>,
     prerequisites |-> <<"p">>, grading |-> <<"g">>, description |-> <<"d", Newline>>]

BlankNameForm == [ValidForm EXCEPT !["coursename"] = <<" ">>]

BlankInstructorForm == [ValidForm EXCEPT !["instructor"] = <<>>]

\* form without the keys of gone
Without(form, gone) == [k \in (DOMAIN form) \ gone |-> form[k]]

OptionalKeys == KeySet \ {"code", "coursename", "instructor"}

\* Forms that leave fields out.
PartialForms ==
    {Without(f, gone) :
        f \in {ValidForm, BlankNameForm, BlankInstructorForm},
        gone \in {{k} : k \in IndexedKeys}
                 \cup {OptionalKeys, DefaultedKeys, KeySet}}

Forms == FullForms \cup PartialForms

\* Forms of the requests that run concurrently.
OtherForm ==
    [ValidForm EXCEPT !["code"] = <<"a", "b">>, !["coursename"] = <<"x", Quote, "z">>]

ConcForms == {ValidForm, OtherForm, BlankNameForm}

\* Codes of detail requests.  The rule '/course/<code>' (line 92) matches a
\* path segment of at least one character, so course_details is never
\* called with the empty code.
PathCodes == {<<"a">>, <<"b">>}

ConcCodes == {<<"a">>}

-----------------------------------------------------------------------------
\* State

VARIABLES
    file,       \* COURSE_FILE: whether it exists, and its text
    pc,         \* per thread: where it stands in add_course / save_courses
    req,        \* per thread: the request it serves, or served last
    resp,       \* per thread: the response to req, once it is sent
    loaded,     \* per thread: what load_courses returned to save_courses
    accepted,   \* create requests that passed validation so far
    before,     \* history, per thread: the file as it was when req arrived
    overlap     \* history: a create passed validation while another was saving

vars == <<file, pc, req, resp, loaded, accepted, before, overlap>>

NoFile == [exists |-> FALSE, text |-> <<>>]

NoReq == [kind |-> "none", code |-> <<>>, form |-> <<>>]

NoResp == [kind |-> "none", target |-> "", flash |-> <<>>, log |-> "", courses |-> <<>>]

\* render_template(template, ...) after a logger.info line
Render(template, courses) ==
    [kind |-> "render", target |-> template, flash |-> <<>>, log |-> "info",
     courses |-> courses]

\* flash(message, category); redirect(url_for('course_catalog'))
Redirect(category, message, level) ==
    [kind |-> "redirect", target |-> "course_catalog", flash |-> <<category, message>>,
     log |-> level, courses |-> <<>>]

\* An exception leaves the handler: werkzeug's BadRequestKeyError becomes a
\* 400 response, anything else a 500.
Raised(exception) ==
    [kind |-> "raised", target |-> exception, flash |-> <<>>, log |-> "",
     courses |-> <<>>]

Init ==
    /\ file = NoFile
    /\ pc = [w \in Workers |-> "idle"]
    /\ req = [w \in Workers |-> NoReq]
    /\ resp = [w \in Workers |-> NoResp]
    /\ loaded = [w \in Workers |-> <<>>]
    /\ accepted = 0
    /\ before = [w \in Workers |-> NoFile]
    /\ overlap = FALSE

-----------------------------------------------------------------------------
\* The store

\* load_courses without the os.path.exists test: the missing file is read
\* like an empty one.
MutLoadUnchecked(f) == Parse(f.text)

\* load_courses(): [] when the file does not exist, else json.load of it.
\* os.path.exists and open are one step: the file is never removed, so a
\* file seen to exist is still there when it is opened.
LoadCourses(f) ==
    IF ~f.exists THEN [ok |-> TRUE, value |-> <<>>] ELSE Parse(f.text)

\* open(COURSE_FILE, 'w'): creates the file or truncates it to no text.
OpenForWriting(f) == [exists |-> TRUE, text |-> <<>>]

\* The text of the file once a writer that opened it with 'w' writes text at
\* its own offset 0 and closes: whatever another writer has put beyond the
\* end of text since the truncation stays.
WriteAtStart(f, text) ==
    [exists |-> TRUE,
     text |-> text \o SubSeq(f.text, Len(text) + 1, Len(f.text))]

\* save_courses, line 63: courses = load_courses()
SaveLoad(w) ==
    /\ pc[w] = "save_load"
    /\ LET r == LoadCourses(file) IN
        IF r.ok
        THEN /\ loaded' = [loaded EXCEPT ![w] = r.value]
             /\ pc' = [pc EXCEPT ![w] = "save_open"]
             /\ resp' = resp
        ELSE /\ resp' = [resp EXCEPT ![w] = Raised("JSONDecodeError")]
             /\ pc' = [pc EXCEPT ![w] = "idle"]
             /\ loaded' = loaded
    /\ UNCHANGED <<file, req, accepted, before, overlap>>

\* save_courses, lines 64-65: courses.append(data); open(COURSE_FILE, 'w')
SaveOpen(w) ==
    /\ pc[w] = "save_open"
    /\ file' = OpenForWriting(file)
    /\ pc' = [pc EXCEPT ![w] = "save_dump"]
    /\ UNCHANGED <<req, resp, loaded, accepted, before, overlap>>

\* save_courses putting the new record first.
MutAppendedFront(courses, data) == <<data>> \o courses

\* save_courses writing the new record alone.
MutAppendedAlone(courses, data) == <<data>>

\* The list save_courses writes: what it loaded with data appended (line 64).
Appended(courses, data) == Append(courses, data)

\* save_courses, line 66 and the close of the with block, then add_course
\* lines 141-145: the texts of this model are far shorter than the writer's
\* buffer, so the whole dump reaches the file at once, on close.
SaveDump(w) ==
    /\ pc[w] = "save_dump"
    /\ file' = WriteAtStart(file, Dump(Appended(loaded[w], CourseData(req[w].form))))
    /\ resp' = [resp EXCEPT ![w] = Redirect("success", "added successfully", "info")]
    /\ pc' = [pc EXCEPT ![w] = "idle"]
    /\ UNCHANGED <<req, loaded, accepted, before, overlap>>

-----------------------------------------------------------------------------
\* The handlers

\* A thread takes a new request when it has answered the last one.
Begin(w, r) ==
    /\ pc[w] = "idle"
    /\ req' = [req EXCEPT ![w] = r]
    /\ loaded' = [loaded EXCEPT ![w] = <<>>]
    /\ before' = [before EXCEPT ![w] = file]

\* GET /
Index(w) ==
    /\ Begin(w, [kind |-> "index", code |-> <<>>, form |-> <<>>])
    /\ resp' = [resp EXCEPT ![w] = Render("index.html", <<>>)]
    /\ UNCHANGED <<file, pc, accepted, overlap>>

\* What course_catalog answers when load_courses gives r.
CatalogResponse(r) ==
    IF r.ok THEN Render("course_catalog.html", r.value) ELSE Raised("JSONDecodeError")

\* GET /catalog
CourseCatalog(w) ==
    /\ Begin(w, [kind |-> "catalog", code |-> <<>>, form |-> <<>>])
    /\ resp' = [resp EXCEPT ![w] = CatalogResponse(LoadCourses(file))]
    /\ UNCHANGED <<file, pc, accepted, overlap>>

\* A scan that keeps the last match instead of stopping at the first.
RECURSIVE MutFindCourseLast(_, _, _)
MutFindCourseLast(courses, code, i) ==
    IF i > Len(courses) THEN 0
    ELSE IF "code" \notin DOMAIN courses[i] THEN -1
    ELSE LET later == MutFindCourseLast(courses, code, i + 1) IN
        IF later # 0 THEN later
        ELSE IF courses[i]["code"] = code THEN i ELSE 0

\* next(...) without its default: an exhausted scan raises.
RECURSIVE MutFindCourseNoDefault(_, _, _)
MutFindCourseNoDefault(courses, code, i) ==
    IF i > Len(courses) THEN -1
    ELSE IF "code" \notin DOMAIN courses[i] THEN -1
    ELSE IF courses[i]["code"] = code THEN i
    ELSE MutFindCourseNoDefault(courses, code, i + 1)

\* next((course for course in courses if course['code'] == code), None):
\* the index of the course it yields, 0 for None, -1 when a record without
\* a 'code' key is reached first (KeyError).
RECURSIVE FindCourse(_, _, _)
FindCourse(courses, code, i) ==
    IF i > Len(courses) THEN 0
    ELSE IF "code" \notin DOMAIN courses[i] THEN -1
    ELSE IF courses[i]["code"] = code THEN i
    ELSE FindCourse(courses, code, i + 1)

\* What course_details(code) answers when load_courses gives r.  "not course"
\* is true of None and of a record without members.
DetailsResponse(r, code) ==
    IF ~r.ok THEN Raised("JSONDecodeError")
    ELSE LET i == FindCourse(r.value, code, 1) IN
        IF i = -1 THEN Raised("KeyError")
        ELSE IF i = 0 \/ DOMAIN r.value[i] = {} THEN
            Redirect("danger", "No course found", "error")
        ELSE Render("course_details.html", <<r.value[i]>>)

\* GET /course/<code>
CourseDetails(w, code) ==
    /\ Begin(w, [kind |-> "details", code |-> code, form |-> <<>>])
    /\ resp' = [resp EXCEPT ![w] = DetailsResponse(LoadCourses(file), code)]
    /\ UNCHANGED <<file, pc, accepted, overlap>>

\* GET /add_course
AddCourseForm(w) ==
    /\ Begin(w, [kind |-> "form", code |-> <<>>, form |-> <<>>])
    /\ resp' = [resp EXCEPT ![w] = Render("add_course.html", <<>>)]
    /\ UNCHANGED <<file, pc, accepted, overlap>>

\* missing_fields (line 131)
MissingFields(data) == SelectSeq(RequiredFields, LAMBDA k : Strip(data[k]) = <<>>)

\* A validation that also wants a code.
MutValidateCode(form) ==
    IF ~(IndexedKeys \subseteq DOMAIN form) THEN "bad_request"
    ELSE IF MissingFields(CourseData(form)) # <<>> \/ Strip(form["code"]) = <<>> THEN "missing"
    ELSE "save"

\* Lines 115-136: what add_course decides before it saves anything.
Validate(form) ==
    IF ~(IndexedKeys \subseteq DOMAIN form) THEN "bad_request"
    ELSE IF MissingFields(CourseData(form)) # <<>> THEN "missing"
    ELSE "save"

\* POST /add_course, up to the call of save_courses
AddCourse(w, form) ==
    /\ Begin(w, [kind |-> "add", code |-> <<>>, form |-> form])
    /\ LET v == Validate(form) IN
        /\ v = "save" => accepted < MaxCourses
        /\ accepted' = IF v = "save" THEN accepted + 1 ELSE accepted
        /\ overlap' = (overlap \/ (v = "save" /\ \E u \in Workers \ {w} : pc[u] # "idle"))
        /\ pc' = [pc EXCEPT ![w] = IF v = "save" THEN "save_load" ELSE "idle"]
        /\ resp' = [resp EXCEPT ![w] =
                IF v = "bad_request" THEN Raised("BadRequestKeyError")
                ELSE IF v = "missing" THEN
                    Redirect("danger", "Some fields were missing", "error")
                ELSE NoResp]
    /\ UNCHANGED file

-----------------------------------------------------------------------------
\* Specifications

\* The steps of save_courses and of the rest of add_course after it.
Save(w) ==
    \/ SaveLoad(w)
    \/ SaveOpen(w)
    \/ SaveDump(w)

\* Requests served one at a time.
Next ==
    \/ Index("w1")
    \/ CourseCatalog("w1")
    \/ \E code \in PathCodes : CourseDetails("w1", code)
    \/ AddCourseForm("w1")
    \/ \E form \in Forms : AddCourse("w1", form)
    \/ Save("w1")

Spec == Init /\ [][Next]_vars

\* List, detail and create requests served by two threads, their steps
\* interleaved.
ConcNext ==
    \E w \in Workers :
        \/ CourseCatalog(w)
        \/ \E code \in ConcCodes : CourseDetails(w, code)
        \/ \E form \in ConcForms : AddCourse(w, form)
        \/ Save(w)

ConcSpec == Init /\ [][ConcNext]_vars

-----------------------------------------------------------------------------
\* Properties

\* thread w has answered its request
Answered(w) == req[w].kind # "none" /\ pc[w] = "idle"

\* thread w's create request ended with the success notice and the redirect
Succeeded(w) ==
    /\ req[w].kind = "add"
    /\ pc[w] = "idle"
    /\ resp[w] = Redirect("success", "added successfully", "info")

\* thread w's create request ended with the failure notice and the redirect
Rejected(w) ==
    /\ req[w].kind = "add"
    /\ pc[w] = "idle"
    /\ resp[w] = Redirect("danger", "Some fields were missing", "error")

\* s is empty or holds nothing but whitespace
IsBlank(s) == \A i \in DOMAIN s : s[i] \in {" ", Tab, Newline}

\* the form carries field k, and its value is blank
BlankField(form, k) == k \in DOMAIN form /\ IsBlank(form[k])

\* the form carries field k, and its value is not blank
FilledField(form, k) == k \in DOMAIN form /\ ~IsBlank(form[k])

IsPrefix(s, t) == Len(s) <= Len(t) /\ SubSeq(t, 1, Len(s)) = s

\* the catalog a load_courses() call made now returns
Stored == LoadCourses(file)

\* the catalog thread w's request found
Found(w) == LoadCourses(before[w])

\* C1: after a create request has run save_courses(r) to completion with no
\* other request interleaved, load_courses() returns a catalog one longer
\* than the one save_courses loaded, whose last element is r field for field
\* and whose earlier elements are the loaded catalog in order.
C1_AppendThenLoad ==
    \A w \in Workers :
        Succeeded(w) =>
            LET r == CourseData(req[w].form)
                n == Len(loaded[w])
            IN /\ Found(w) = [ok |-> TRUE, value |-> loaded[w]]
               /\ Stored.ok
               /\ Len(Stored.value) = n + 1
               /\ \A k \in KeySet : Stored.value[n + 1][k] = r[k]
               /\ DOMAIN Stored.value[n + 1] = KeySet
               /\ SubSeq(Stored.value, 1, n) = loaded[w]

\* C1 witness: a record with an escaped character appended to a catalog that
\* already held a record.
C1_Witness ==
    /\ Succeeded("w1")
    /\ Len(loaded["w1"]) = 1
    /\ req["w1"].form["coursename"] = <<" ", Quote>>

\* C2: a create request whose coursename or instructor is blank never reaches
\* save_courses and leaves the file as it was; when the form carries every
\* field read by key, it ends with the failure notice and the redirect.
C2_BlankRequiredRejected ==
    \A w \in Workers :
        (/\ req[w].kind = "add"
         /\ \/ BlankField(req[w].form, "coursename")
            \/ BlankField(req[w].form, "instructor"))
        => /\ pc[w] = "idle"
           /\ file = before[w]
           /\ ~Succeeded(w)
           /\ IndexedKeys \subseteq DOMAIN req[w].form => Rejected(w)

\* C2 witness: a whitespace-only instructor rejected while the catalog holds
\* a record.
C2_Witness ==
    /\ Rejected("w1")
    /\ req["w1"].form["instructor"] = <<Tab, " ">>
    /\ ~IsBlank(req["w1"].form["coursename"])
    /\ Stored.ok /\ Len(Stored.value) = 1

\* index of the first record of courses whose code is code
FirstWithCode(courses, code) ==
    CHOOSE i \in DOMAIN courses :
        /\ courses[i]["code"] = code
        /\ \A j \in 1..(i - 1) : courses[j]["code"] # code

\* C3: a detail request for a code some record carries renders the record at
\* the smallest index with that code.
C3_DetailFirstMatch ==
    \A w \in Workers :
        (/\ req[w].kind = "details"
         /\ Found(w).ok
         /\ \E i \in DOMAIN Found(w).value : Found(w).value[i]["code"] = req[w].code)
        => resp[w] = Render("course_details.html",
                            <<Found(w).value[FirstWithCode(Found(w).value, req[w].code)]>>)

\* C3 witness: two different records share the requested code.
C3_Witness ==
    /\ req["w1"].kind = "details"
    /\ Len(Found("w1").value) = 2
    /\ Found("w1").value[1]["code"] = req["w1"].code
    /\ Found("w1").value[2]["code"] = req["w1"].code
    /\ Found("w1").value[1] # Found("w1").value[2]
    /\ resp["w1"].kind = "render"

\* C4: a detail request for a code no record carries ends with an error log,
\* the not-found notice and the redirect to the list; nothing is raised and
\* the file is as it was.
C4_DetailNotFound ==
    \A w \in Workers :
        (/\ req[w].kind = "details"
         /\ Found(w).ok
         /\ \A i \in DOMAIN Found(w).value : Found(w).value[i]["code"] # req[w].code)
        => /\ resp[w] = Redirect("danger", "No course found", "error")
           /\ file = before[w]

\* C4 witness: the lookup misses in a catalog that holds two records.
C4_Witness ==
    /\ req["w1"].kind = "details"
    /\ req["w1"].code = <<"b">>
    /\ Len(Found("w1").value) = 2
    /\ resp["w1"].kind = "redirect"

AllIdle == \A w \in Workers : pc[w] = "idle"

\* the records of courses equal to r
Copies(courses, r) == Cardinality({i \in DOMAIN courses : courses[i] = r})

\* C5: as long as no create request has run while another was saving, every
\* create that passed validation is stored once all have ended: the catalog
\* holds as many records as creates were accepted, and the records of the two
\* threads' successful requests are both in it.
C5_OneAfterTheOtherKeepsBoth ==
    (AllIdle /\ ~overlap) =>
        /\ Stored.ok
        /\ Len(Stored.value) = accepted
        /\ \A w \in Workers :
            Succeeded(w) => Copies(Stored.value, CourseData(req[w].form)) >= 1
        /\ (Succeeded("w1") /\ Succeeded("w2")
            /\ req["w1"].form = req["w2"].form)
           => Copies(Stored.value, CourseData(req["w1"].form)) >= 2

\* C5 witness, the lost update: two create requests with different records
\* ran concurrently, both reported success, and the stored catalog is the
\* one record of the last to rewrite the file.
C5_Witness ==
    /\ AllIdle /\ overlap
    /\ Succeeded("w1") /\ Succeeded("w2")
    /\ accepted = 2
    /\ req["w1"].form # req["w2"].form
    /\ Stored = [ok |-> TRUE, value |-> <<CourseData(req["w2"].form)>>]

\* C6 as claimed: whenever a thread is free to take a request and read the
\* file, the file does not exist or parses as an array of records.
C6_FileAlwaysParses ==
    (\E w \in Workers : pc[w] = "idle") => (file.exists => Parse(file.text).ok)

\* C7 as claimed: a create request with non-blank coursename and instructor
\* and none of the six optional fields succeeds, and the record stored last
\* has the empty string in each of them.
C7_OptionalOmittedSucceeds ==
    \A w \in Workers :
        (/\ Answered(w)
         /\ req[w].kind = "add"
         /\ DOMAIN req[w].form = {"code", "coursename", "instructor"}
         /\ FilledField(req[w].form, "coursename")
         /\ FilledField(req[w].form, "instructor"))
        => /\ Succeeded(w)
           /\ Stored.ok
           /\ Len(Stored.value) = Len(Found(w).value) + 1
           /\ \A k \in OptionalKeys : Stored.value[Len(Stored.value)][k] = <<>>

\* C8: with no catalog file, load_courses returns the empty list without
\* raising and the list handler renders a catalog of zero courses.
C8_AbsentFileEmptyCatalog ==
    /\ ~file.exists => LoadCourses(file) = [ok |-> TRUE, value |-> <<>>]
    /\ \A w \in Workers :
        (req[w].kind = "catalog" /\ ~before[w].exists)
        => resp[w] = Render("course_catalog.html", <<>>)

\* C8 witness: the list was requested before any file existed.
C8_Witness ==
    /\ req["w1"].kind = "catalog"
    /\ ~before["w1"].exists
    /\ resp["w1"].kind = "render"

\* thread w's request put the record of its form at the end of the catalog
AppendedRecord(w) ==
    /\ Stored.ok
    /\ Stored.value = Append(Found(w).value, CourseData(req[w].form))

\* C9: for a form that carries all nine fields, the record is appended if and
\* only if coursename and instructor are both non-blank, whatever the code.
C9_OnlyNameAndInstructorChecked ==
    \A w \in Workers :
        (Answered(w) /\ req[w].kind = "add" /\ DOMAIN req[w].form = KeySet)
        => LET filled == /\ FilledField(req[w].form, "coursename")
                         /\ FilledField(req[w].form, "instructor")
           IN /\ Succeeded(w) <=> filled
              /\ AppendedRecord(w) <=> filled
              /\ ~filled => file = before[w]

\* C9 witness: a create with an empty code accepted into a catalog that
\* already holds a record with the same empty code.
C9_Witness ==
    /\ Succeeded("w1")
    /\ req["w1"].form["code"] = <<>>
    /\ Len(Stored.value) = 2
    /\ Stored.value[1]["code"] = <<>>
    /\ Stored.value[2]["code"] = <<>>

\* C10: with requests served one at a time, the catalog a request found is a
\* prefix of the catalog stored when it has been answered; index, list,
\* detail, form and unsuccessful create requests leave the file exactly as
\* it was, and a successful create makes the catalog one record longer.
C10_AppendOnly ==
    \A w \in Workers :
        Answered(w) =>
            /\ Found(w).ok /\ Stored.ok
            /\ IsPrefix(Found(w).value, Stored.value)
            /\ IF Succeeded(w)
               THEN Len(Stored.value) = Len(Found(w).value) + 1
               ELSE file = before[w]

\* C10 witness: a successful create into a catalog of one other record.
C10_Witness ==
    /\ Succeeded("w1")
    /\ Len(Found("w1").value) = 1
    /\ Found("w1").value[1] # CourseData(req["w1"].form)

====
